---- MODULE Spec2Model ----
(***************************************************************************)
(* A model of the charm-k8s-loadbalancer operator: the configuration       *)
(* parsers of charm_k8s_loadbalancer.py, its create-or-replace             *)
(* reconciliation of one Kubernetes Service of type LoadBalancer, the      *)
(* deletion of that Service, and the charm's event handlers (charm.py).    *)
(*                                                                         *)
(* Conventions.                                                            *)
(*  - A Python str that the code parses is a sequence of one-character     *)
(*    strings, <<"a", "=", "b">> for "a=b".  Names the code only           *)
(*    concatenates or compares (app name, namespace) are TLA+ strings.     *)
(*  - A Python dict is a set of <<key, value>> pairs with unique keys.     *)
(*  - An optional value (None or a value) is <<>> or <<value>>.            *)
(*  - A function that may raise returns [ok, val, err]: val is the value   *)
(*    returned, err the exception raised.                                  *)
(***************************************************************************)
EXTENDS Integers, Sequences, FiniteSets, TLC

(***************************************************************************)
(* Python built-ins the parsers use.                                       *)
(***************************************************************************)

\* None and Some(v): Python's Optional.
None == <<>>

Some(v) == <<v>>

\* The characters str.strip() removes (ASCII whitespace; TAB, LF, CR, VT, FF
\* stand for the control characters).
Whitespace == {" ", "TAB", "LF", "CR", "VT", "FF"}

IsSpace(c) == c \in Whitespace

\* str.strip()
Strip(s) ==
    LET keep == {i \in 1..Len(s) : ~IsSpace(s[i])}
        lo == CHOOSE i \in keep : \A j \in keep : i <= j
        hi == CHOOSE i \in keep : \A j \in keep : j <= i
    IN  IF keep = {} THEN <<>> ELSE SubSeq(s, lo, hi)

\* str.rstrip(ch)
RStripChar(s, ch) ==
    LET keep == {i \in 1..Len(s) : s[i] # ch}
        hi == CHOOSE i \in keep : \A j \in keep : j <= i
    IN  IF keep = {} THEN <<>> ELSE SubSeq(s, 1, hi)

\* ch in s
Contains(s, ch) == \E i \in 1..Len(s) : s[i] = ch

\* s.find(ch) + 1, for a string that contains ch
FirstIndex(s, ch) == CHOOSE i \in 1..Len(s) : s[i] = ch /\ \A j \in 1..(i - 1) : s[j] # ch

\* str.split(ch)
RECURSIVE Split(_, _)
Split(s, ch) ==
    IF ~Contains(s, ch)
    THEN <<s>>
    ELSE LET i == FirstIndex(s, ch)
         IN  <<SubSeq(s, 1, i - 1)>> \o Split(SubSeq(s, i + 1, Len(s)), ch)

\* str.split(ch, 1), for a string that contains ch
SplitFirst(s, ch) ==
    LET i == FirstIndex(s, ch)
    IN  <<SubSeq(s, 1, i - 1), SubSeq(s, i + 1, Len(s))>>

\* str.startswith(ch)
StartsWith(s, ch) == Len(s) >= 1 /\ s[1] = ch

\* Mutant: a key already in the dict keeps its first value.
DictSet_KeepFirst(d, key, value) ==
    IF \E p \in d : p[1] = key THEN d ELSE d \cup {<<key, value>>}

\* d[key] = value
DictSet(d, key, value) == {p \in d : p[1] # key} \cup {<<key, value>>}

DictKeys(d) == {p[1] : p \in d}

\* An exception: its class, its message, the value the message quotes (a
\* character sequence) and, for an ApiError, the HTTP status code.
Exception(kind, msg, arg, code) == [kind |-> kind, msg |-> msg, arg |-> arg, code |-> code]

NoError == Exception("none", "", <<>>, 0)

\* class ConfigError(ValueError)
ConfigError(msg) == Exception("ConfigError", msg, <<>>, 0)

\* The result of a call that returned v, and of one that raised the exception
\* e (default: a value of the type the call returns, never read).
Ok(v) == [ok |-> TRUE, val |-> v, err |-> NoError]

Raise(e, default) == [ok |-> FALSE, val |-> default, err |-> e]

Lower ==
    {"a", "b", "c", "d", "e", "f", "g", "h", "i", "j", "k", "l", "m",
     "n", "o", "p", "q", "r", "s", "t", "u", "v", "w", "x", "y", "z"}

Upper ==
    {"A", "B", "C", "D", "E", "F", "G", "H", "I", "J", "K", "L", "M",
     "N", "O", "P", "Q", "R", "S", "T", "U", "V", "W", "X", "Y", "Z"}

Digit == {"0", "1", "2", "3", "4", "5", "6", "7", "8", "9"}

(***************************************************************************)
(* charm_k8s_loadbalancer.py: ports and selector.                          *)
(***************************************************************************)

MinPort == 1

MaxPort == 65535

\* Mutant: the bounds 1 and 65535 themselves are refused.
ValidatePort_Exclusive(name, value) ==
    IF ~(MinPort < value /\ value < MaxPort)
    THEN Raise(ConfigError(name \o " must be between 1 and 65535"), 0)
    ELSE Ok(value)

\* _validate_port(name, value): the value, or ConfigError naming the field.
ValidatePort(name, value) ==
    IF ~(MinPort <= value /\ value <= MaxPort)
    THEN Raise(ConfigError(name \o " must be between 1 and 65535"), 0)
    ELSE Ok(value)

\* The character of s at i, "" past either end.
At(s, i) == IF i \in 1..Len(s) THEN s[i] ELSE ""

\* s[i:].startswith(word)
Literal(s, i, word) == i + Len(word) - 1 <= Len(s) /\ SubSeq(s, i, i + Len(word) - 1) = word

\* json.decoder.WHITESPACE: the index of the first character at or after i
\* that is not one of " \t\n\r".
RECURSIVE SkipWhitespace(_, _)
SkipWhitespace(s, i) ==
    IF At(s, i) \in {" ", "TAB", "LF", "CR"} THEN SkipWhitespace(s, i + 1) ELSE i

\* The printable ASCII characters, code points 32 to 126 (the grave accent,
\* code point 96, by name).
Ascii ==
    <<" ", "!", "\"", "#", "$", "%", "&", "'", "(", ")", "*", "+", ",", "-", ".", "/",
      "0", "1", "2", "3", "4", "5", "6", "7", "8", "9", ":", ";", "<", "=", ">", "?",
      "@", "A", "B", "C", "D", "E", "F", "G", "H", "I", "J", "K", "L", "M", "N", "O",
      "P", "Q", "R", "S", "T", "U", "V", "W", "X", "Y", "Z", "[", "\\", "]", "^", "_",
      "GRAVE", "a", "b", "c", "d", "e", "f", "g", "h", "i", "j", "k", "l", "m", "n", "o",
      "p", "q", "r", "s", "t", "u", "v", "w", "x", "y", "z", "{", "|", "}", "~">>

\* Characters below code point 32 that the model names.
ControlChars == {"BS", "TAB", "LF", "VT", "FF", "CR"}

HexDigits == {"0", "1", "2", "3", "4", "5", "6", "7", "8", "9",
              "a", "b", "c", "d", "e", "f", "A", "B", "C", "D", "E", "F"}

HexDigitValue(c) ==
    CASE c \in {"0", "1", "2", "3", "4", "5", "6", "7", "8", "9"} ->
             CHOOSE n \in 0..9 : <<"0", "1", "2", "3", "4", "5", "6", "7", "8", "9">>[n + 1] = c
      [] c \in {"a", "A"} -> 10 [] c \in {"b", "B"} -> 11 [] c \in {"c", "C"} -> 12
      [] c \in {"d", "D"} -> 13 [] c \in {"e", "E"} -> 14 [] c \in {"f", "F"} -> 15

HexDigitChar(n) ==
    <<"0", "1", "2", "3", "4", "5", "6", "7", "8", "9", "a", "b", "c", "d", "e", "f">>[n + 1]

\* int(s, 16) for a non-empty string of hex digits
RECURSIVE HexValue(_)
HexValue(s) ==
    IF Len(s) = 1
    THEN HexDigitValue(s[1])
    ELSE 16 * HexValue(SubSeq(s, 1, Len(s) - 1)) + HexDigitValue(s[Len(s)])

\* '%x' % n for n >= 0
RECURSIVE HexString(_)
HexString(n) ==
    IF n < 16 THEN <<HexDigitChar(n)>> ELSE HexString(n \div 16) \o <<HexDigitChar(n % 16)>>

RECURSIVE Flat(_)
Flat(s) == IF s = <<>> THEN "" ELSE Head(s) \o Flat(Tail(s))

\* chr(code): printable ASCII as itself, the named control characters by
\* name, any other code point as "U+" and its hexadecimal number.
Chr(code) ==
    CASE code \in 32..126 -> Ascii[code - 31]
      [] code \in 8..13 -> <<"BS", "TAB", "LF", "VT", "FF", "CR">>[code - 7]
      [] OTHER -> "U+" \o Flat(HexString(code))

\* A decoded JSON value: kind is "str", "object" or "other"; val is the text of
\* a string, dict the items of an object, end the index after the value.
JsonValue(kind, val, dict, end) ==
    [ok |-> TRUE, kind |-> kind, val |-> val, dict |-> dict, end |-> end, msg |-> ""]

\* json.JSONDecodeError(msg, ...)
JSONDecodeError(msg) ==
    [ok |-> FALSE, kind |-> "other", val |-> <<>>, dict |-> {}, end |-> 0, msg |-> msg]

IsHex4(s, i) == i + 3 <= Len(s) /\ \A k \in i..(i + 3) : s[k] \in HexDigits

\* json.decoder.scanstring(s, i, strict=True) from the character after the
\* opening quote; acc is the text decoded so far.
RECURSIVE ScanString(_, _, _)
ScanString(s, i, acc) ==
    LET c == At(s, i)
        esc == At(s, i + 1)
        code == HexValue(SubSeq(s, i + 2, i + 5))
        paired == /\ code \in 55296..56319
                  /\ i + 12 <= Len(s)
                  /\ Literal(s, i + 6, <<"\\", "u">>)
        code2 == HexValue(SubSeq(s, i + 8, i + 11))
    IN  CASE c = "" -> JSONDecodeError("Unterminated string starting at")
          [] c = "\"" -> JsonValue("str", acc, {}, i + 1)
          [] c \in ControlChars -> JSONDecodeError("Invalid control character at")
          [] c = "\\" /\ esc = "" -> JSONDecodeError("Unterminated string starting at")
          [] c = "\\" /\ esc \in {"\"", "\\", "/"} -> ScanString(s, i + 2, Append(acc, esc))
          [] c = "\\" /\ esc = "b" -> ScanString(s, i + 2, Append(acc, "BS"))
          [] c = "\\" /\ esc = "f" -> ScanString(s, i + 2, Append(acc, "FF"))
          [] c = "\\" /\ esc = "n" -> ScanString(s, i + 2, Append(acc, "LF"))
          [] c = "\\" /\ esc = "r" -> ScanString(s, i + 2, Append(acc, "CR"))
          [] c = "\\" /\ esc = "t" -> ScanString(s, i + 2, Append(acc, "TAB"))
          [] c = "\\" /\ esc = "u" ->
                 IF i + 6 > Len(s) \/ ~IsHex4(s, i + 2)
                 THEN JSONDecodeError("Invalid \\uXXXX escape")
                 ELSE IF paired /\ ~IsHex4(s, i + 8)
                 THEN JSONDecodeError("Invalid \\uXXXX escape")
                 ELSE IF paired /\ code2 \in 56320..57343
                 THEN ScanString(s, i + 12,
                                 Append(acc, Chr(65536 + 1024 * (code - 55296) + (code2 - 56320))))
                 ELSE ScanString(s, i + 6, Append(acc, Chr(code)))
          [] c = "\\" -> JSONDecodeError("Invalid \\escape")
          [] OTHER -> ScanString(s, i + 1, Append(acc, c))

RECURSIVE DigitsEnd(_, _)
DigitsEnd(s, i) == IF At(s, i) \in Digit THEN DigitsEnd(s, i + 1) ELSE i

\* json.scanner NUMBER_RE, (-?(?:0|[1-9]\d*))(\.\d+)?([eE][-+]?\d+)?, matched
\* at i: the index after the match, 0 when there is none.
MatchNumber(s, i) ==
    LET start == IF At(s, i) = "-" THEN i + 1 ELSE i
        integer == IF At(s, start) = "0" THEN start + 1
                   ELSE IF At(s, start) \in Digit THEN DigitsEnd(s, start + 1)
                   ELSE 0
        frac == IF At(s, integer) = "." /\ At(s, integer + 1) \in Digit
                THEN DigitsEnd(s, integer + 2)
                ELSE integer
        digits == IF At(s, frac + 1) \in {"-", "+"} THEN frac + 2 ELSE frac + 1
        exp == IF At(s, frac) \in {"e", "E"} /\ At(s, digits) \in Digit
               THEN DigitsEnd(s, digits + 1)
               ELSE frac
    IN  IF integer = 0 THEN 0 ELSE exp

\* The constants of json.scanner: null, true, false, NaN, Infinity, -Infinity.
JsonConstants ==
    {<<"n", "u", "l", "l">>, <<"t", "r", "u", "e">>, <<"f", "a", "l", "s", "e">>,
     <<"N", "a", "N">>, <<"I", "n", "f", "i", "n", "i", "t", "y">>,
     <<"-", "I", "n", "f", "i", "n", "i", "t", "y">>}

RECURSIVE ScanOnce(_, _), JSONObject(_, _, _), ObjectKey(_, _, _), ObjectValue(_, _, _, _),
          ObjectNext(_, _, _), JSONArray(_, _), ArrayValue(_, _), ArrayNext(_, _)

\* The number matched at i, which ends before index end (0: no match).
Number(end) ==
    IF end = 0 THEN JSONDecodeError("Expecting value") ELSE JsonValue("other", <<>>, {}, end)

\* json.scanner.scan_once(s, i)
ScanOnce(s, i) ==
    CASE At(s, i) = "\"" -> ScanString(s, i + 1, <<>>)
      [] At(s, i) = "{" -> IF At(s, SkipWhitespace(s, i + 1)) = "}"
                           THEN JsonValue("object", <<>>, {}, SkipWhitespace(s, i + 1) + 1)
                           ELSE JSONObject(s, SkipWhitespace(s, i + 1), {})
      [] At(s, i) = "[" -> IF At(s, SkipWhitespace(s, i + 1)) = "]"
                           THEN JsonValue("other", <<>>, {}, SkipWhitespace(s, i + 1) + 1)
                           ELSE JSONArray(s, SkipWhitespace(s, i + 1))
      [] \E word \in JsonConstants : Literal(s, i, word) ->
             JsonValue("other", <<>>, {}, i + Len(CHOOSE word \in JsonConstants : Literal(s, i, word)))
      [] OTHER -> Number(MatchNumber(s, i))

\* json.decoder.JSONObject from the first key at i, in the steps of the
\* source: the key, the colon, the value, then "}" or "," and the next key.
\* pairs holds the items decoded so far (a repeated key keeps its last value).
JSONObject(s, i, pairs) ==
    IF At(s, i) # "\""
    THEN JSONDecodeError("Expecting property name enclosed in double quotes")
    ELSE ObjectKey(s, ScanString(s, i + 1, <<>>), pairs)

ObjectKey(s, key, pairs) ==
    IF ~key.ok
    THEN key
    ELSE IF At(s, SkipWhitespace(s, key.end)) # ":"
    THEN JSONDecodeError("Expecting ':' delimiter")
    ELSE ObjectValue(s, key, ScanOnce(s, SkipWhitespace(s, SkipWhitespace(s, key.end) + 1)), pairs)

ObjectValue(s, key, value, pairs) ==
    IF ~value.ok
    THEN value
    ELSE ObjectNext(s, SkipWhitespace(s, value.end), DictSet(pairs, key.val, <<value.kind, value.val>>))

ObjectNext(s, i, pairs) ==
    IF At(s, i) = "}"
    THEN JsonValue("object", <<>>, pairs, i + 1)
    ELSE IF At(s, i) # ","
    THEN JSONDecodeError("Expecting ',' delimiter")
    ELSE JSONObject(s, SkipWhitespace(s, i + 1), pairs)

\* json.decoder.JSONArray from the first element at i
JSONArray(s, i) == ArrayValue(s, ScanOnce(s, i))

ArrayValue(s, value) ==
    IF ~value.ok THEN value ELSE ArrayNext(s, SkipWhitespace(s, value.end))

ArrayNext(s, i) ==
    IF At(s, i) = "]"
    THEN JsonValue("other", <<>>, {}, i + 1)
    ELSE IF At(s, i) # ","
    THEN JSONDecodeError("Expecting ',' delimiter")
    ELSE JSONArray(s, SkipWhitespace(s, i + 1))

\* json.JSONDecoder.decode: only whitespace may follow the value obj.
Decode(s, obj) ==
    IF obj.ok /\ SkipWhitespace(s, obj.end) # Len(s) + 1
    THEN JSONDecodeError("Extra data")
    ELSE obj

\* json.loads(s)
JsonLoads(s) == Decode(s, ScanOnce(s, SkipWhitespace(s, 1)))

\* Lines 48-56 on the outcome of json.loads; what the decoder appends to its
\* message (the offending escape, the position) is left out.
SelectorOfJson(parsed) ==
    IF ~parsed.ok
    THEN Raise(ConfigError("selector JSON is invalid: " \o parsed.msg), {})
    ELSE IF parsed.kind # "object" \/ \E p \in parsed.dict : p[2][1] # "str"
    THEN Raise(ConfigError("selector JSON must be an object of string:string"), {})
    ELSE IF parsed.dict = {}
    THEN Raise(ConfigError("selector must not be empty"), {})
    ELSE Ok({<<p[1], p[2][2]>> : p \in parsed.dict})

\* The JSON branch of parse_selector, lines 45-56.
ParseSelectorJson(selector) == SelectorOfJson(JsonLoads(selector))

\* The loop of parse_selector over selector.split(","), then the final check.
RECURSIVE SelectorLoop(_, _)
SelectorLoop(parts, result) ==
    IF parts = <<>>
    THEN IF result = {}
         THEN Raise(ConfigError("selector must not be empty"), {})
         ELSE Ok(result)
    ELSE LET part == Strip(Head(parts))
         IN  IF part = <<>>
             THEN SelectorLoop(Tail(parts), result)
             ELSE IF ~Contains(part, "=")
             THEN Raise(ConfigError("selector must be in 'key=value' format (comma-separated) or JSON object"), {})
             ELSE LET kv == SplitFirst(part, "=")
                      key == Strip(kv[1])
                      value == Strip(kv[2])
                  IN  IF key = <<>> \/ value = <<>>
                      THEN Raise(ConfigError("selector contains an empty key or value"), {})
                      ELSE SelectorLoop(Tail(parts), DictSet(result, key, value))

\* parse_selector(raw): raw is None or Some(string).
ParseSelector(raw) ==
    IF raw = None
    THEN Raise(ConfigError("selector must be set"), {})
    ELSE LET selector == Strip(raw[1])
         IN  IF selector = <<>>
             THEN Raise(ConfigError("selector must not be empty"), {})
             ELSE IF StartsWith(selector, "{")
             THEN ParseSelectorJson(selector)
             ELSE SelectorLoop(Split(selector, ","), {})

(***************************************************************************)
(* charm_k8s_loadbalancer.py: annotations.                                 *)
(***************************************************************************)

MaxKeyLen == 253

MaxNameLen == 63

\* re.match of a pattern "^...$": "$" matches at the end of the string and
\* just before a final newline, so the body may match either of these.
MatchToEnd(s) ==
    IF s # <<>> /\ s[Len(s)] = "LF" THEN {s, SubSeq(s, 1, Len(s) - 1)} ELSE {s}

\* [a-z0-9]([-a-z0-9]*[a-z0-9])?
Dns1123Label(s) ==
    /\ Len(s) >= 1
    /\ \A i \in 1..Len(s) : s[i] \in Lower \cup Digit \cup {"-"}
    /\ s[1] # "-"
    /\ s[Len(s)] # "-"

\* label(\.label)*
Dns1123SubdomainBody(s) == \A i \in 1..Len(Split(s, ".")) : Dns1123Label(Split(s, ".")[i])

\* _DNS1123_SUBDOMAIN_PATTERN.match(s)
Dns1123SubdomainMatch(s) == \E t \in MatchToEnd(s) : Dns1123SubdomainBody(t)

\* [A-Za-z0-9]([-A-Za-z0-9_.]*[A-Za-z0-9])?
QualifiedNameBody(s) ==
    /\ Len(s) >= 1
    /\ \A i \in 1..Len(s) : s[i] \in Lower \cup Upper \cup Digit \cup {"-", "_", "."}
    /\ s[1] \in Lower \cup Upper \cup Digit
    /\ s[Len(s)] \in Lower \cup Upper \cup Digit

\* _QUALIFIED_NAME_PATTERN.match(s)
QualifiedNameMatch(s) == \E t \in MatchToEnd(s) : QualifiedNameBody(t)

\* _is_valid_annotation_key(key)
IsValidAnnotationKey(key) ==
    LET parts == Split(key, "/")
        name == IF Len(parts) = 2 THEN parts[2] ELSE parts[1]
    IN  /\ ~(key = <<>> \/ Len(key) > MaxKeyLen)
        /\ ~(Len(parts) > 2)
        /\ Len(parts) = 2 => ~(parts[1] = <<>> \/ ~Dns1123SubdomainMatch(parts[1]))
        /\ ~(name = <<>> \/ Len(name) > MaxNameLen \/ ~QualifiedNameMatch(name))

\* The loop of parse_annotations over the stripped non-empty pairs.
RECURSIVE AnnotationsLoop(_, _)
AnnotationsLoop(pairs, result) ==
    IF pairs = <<>>
    THEN Ok(result)
    ELSE LET pair == Head(pairs)
         IN  IF ~Contains(pair, "=")
             THEN Raise(ConfigError("loadbalancer-annotations must be in 'key=value' format (comma-separated)"), {})
             ELSE LET kv == SplitFirst(pair, "=")
                      key == Strip(kv[1])
                      value == Strip(kv[2])
                  IN  IF ~IsValidAnnotationKey(key)
                      THEN Raise(Exception("ConfigError", "invalid annotation key", key, 0), {})
                      ELSE AnnotationsLoop(Tail(pairs), DictSet(result, key, value))

\* [p.strip() for p in text.split(",") if p.strip()]
RECURSIVE StrippedNonEmpty(_)
StrippedNonEmpty(parts) ==
    IF parts = <<>>
    THEN <<>>
    ELSE IF Strip(Head(parts)) = <<>>
    THEN StrippedNonEmpty(Tail(parts))
    ELSE <<Strip(Head(parts))>> \o StrippedNonEmpty(Tail(parts))

\* parse_annotations(raw): raw is None or Some(string).
ParseAnnotations(raw) ==
    IF raw = None
    THEN Ok({})
    ELSE LET text == RStripChar(Strip(raw[1]), ",")
         IN  IF text = <<>>
             THEN Ok({})
             ELSE AnnotationsLoop(StrippedNonEmpty(Split(text, ",")), {})

(***************************************************************************)
(* charm_k8s_loadbalancer.py: the fixed IP.                                *)
(***************************************************************************)

DigitValue(c) ==
    CASE c = "0" -> 0 [] c = "1" -> 1 [] c = "2" -> 2 [] c = "3" -> 3 [] c = "4" -> 4
      [] c = "5" -> 5 [] c = "6" -> 6 [] c = "7" -> 7 [] c = "8" -> 8 [] c = "9" -> 9

DigitChar(n) == <<"0", "1", "2", "3", "4", "5", "6", "7", "8", "9">>[n + 1]

\* int(s) for a non-empty string of decimal digits
RECURSIVE DecimalValue(_)
DecimalValue(s) ==
    IF Len(s) = 1
    THEN DigitValue(s[1])
    ELSE 10 * DecimalValue(SubSeq(s, 1, Len(s) - 1)) + DigitValue(s[Len(s)])

\* str(n) for n >= 0
RECURSIVE DecimalString(_)
DecimalString(n) ==
    IF n < 10 THEN <<DigitChar(n)>> ELSE DecimalString(n \div 10) \o <<DigitChar(n % 10)>>

\* ipaddress.IPv4Address._parse_octet: TRUE when the octet is accepted.
OctetOk(o) ==
    /\ o # <<>>
    /\ \A i \in 1..Len(o) : o[i] \in Digit
    /\ Len(o) <= 3
    /\ ~(o # <<"0">> /\ o[1] = "0")
    /\ DecimalValue(o) <= 255

\* sep.join(parts)
RECURSIVE Join(_, _)
Join(parts, sep) ==
    IF parts = <<>>
    THEN <<>>
    ELSE IF Len(parts) = 1
    THEN parts[1]
    ELSE parts[1] \o <<sep>> \o Join(Tail(parts), sep)

\* AddressValueError(...), raised by the ipaddress constructors.
AddressValueError(text) == Exception("AddressValueError", "", text, 0)

\* ipaddress.IPv4Address(text): the four octets of the address.
IPv4Address(text) ==
    LET octets == Split(text, ".")
    IN  IF Contains(text, "/") \/ Len(octets) # 4 \/ \E i \in 1..Len(octets) : ~OctetOk(octets[i])
        THEN Raise(AddressValueError(text), <<>>)
        ELSE Ok([i \in 1..4 |-> DecimalValue(octets[i])])

\* str(IPv4Address): '.'.join(map(str, octets))
IPv4String(octets) == Join([i \in 1..4 |-> DecimalString(octets[i])], ".")

\* ipaddress.IPv6Address._parse_hextet: TRUE when the hextet is accepted
\* (int("", 16) raises, so the empty hextet is not).
HextetOk(h) ==
    /\ \A i \in 1..Len(h) : h[i] \in HexDigits
    /\ Len(h) <= 4
    /\ h # <<>>

\* ipaddress.IPv6Address._ip_int_from_string(ip_str), the eight hextets, in
\* the steps of the source; each step hands what it computed to the next.

\* The hextets of parts: parts_hi leading ones, zeros for "::", parts_lo
\* trailing ones.
IPv6Parse(parts, parts_hi, parts_lo, ip_str) ==
    IF \/ \E i \in 1..parts_hi : ~HextetOk(parts[i])
       \/ \E i \in 1..parts_lo : ~HextetOk(parts[Len(parts) - parts_lo + i])
    THEN Raise(AddressValueError(ip_str), <<>>)
    ELSE Ok([i \in 1..parts_hi |-> HexValue(parts[i])]
            \o [i \in 1..(8 - (parts_hi + parts_lo)) |-> 0]
            \o [i \in 1..parts_lo |-> HexValue(parts[Len(parts) - parts_lo + i])])

\* With "::" at skip_index: the counts of hextets before and after it, less
\* the empty part that a leading or trailing "::" leaves at the end.
IPv6Skipped(parts, parts_hi, parts_lo, ip_str) ==
    IF \/ parts[1] = <<>> /\ parts_hi # 0
       \/ parts[Len(parts)] = <<>> /\ parts_lo # 0
       \/ 8 - (parts_hi + parts_lo) < 1
    THEN Raise(AddressValueError(ip_str), <<>>)
    ELSE IPv6Parse(parts, parts_hi, parts_lo, ip_str)

\* skips: the indexes of the empty parts that are neither first nor last.
IPv6Shape(parts, skips, ip_str) ==
    IF Len(parts) > 9 \/ Cardinality(skips) > 1
    THEN Raise(AddressValueError(ip_str), <<>>)
    ELSE IF skips = {}
    THEN IF Len(parts) # 8 \/ parts[1] = <<>> \/ parts[Len(parts)] = <<>>
         THEN Raise(AddressValueError(ip_str), <<>>)
         ELSE IPv6Parse(parts, 8, 0, ip_str)
    ELSE IPv6Skipped(parts,
                     (CHOOSE i \in skips : TRUE) - (IF parts[1] = <<>> THEN 2 ELSE 1),
                     Len(parts) - (CHOOSE i \in skips : TRUE) - (IF parts[Len(parts)] = <<>> THEN 1 ELSE 0),
                     ip_str)

\* for i in range(1, len(parts) - 1): if not parts[i]
IPv6Skips(parts, ip_str) ==
    IPv6Shape(parts, {i \in 2..(Len(parts) - 1) : parts[i] = <<>>}, ip_str)

\* v4: the IPv4 address in the last part, Ok(<<>>) when the last part has no
\* dot; its four octets become two hextets.
IPv6Embedded(parts, v4, ip_str) ==
    IF ~v4.ok
    THEN Raise(AddressValueError(ip_str), <<>>)
    ELSE IPv6Skips(IF v4.val = <<>>
                   THEN parts
                   ELSE SubSeq(parts, 1, Len(parts) - 1)
                        \o <<HexString(256 * v4.val[1] + v4.val[2]),
                             HexString(256 * v4.val[3] + v4.val[4])>>,
                   ip_str)

IPv6Parts(parts, ip_str) ==
    IF ip_str = <<>> \/ Len(parts) < 3
    THEN Raise(AddressValueError(ip_str), <<>>)
    ELSE IPv6Embedded(parts,
                      IF Contains(parts[Len(parts)], ".") THEN IPv4Address(parts[Len(parts)]) ELSE Ok(<<>>),
                      ip_str)

IPv6Hextets(ip_str) == IPv6Parts(Split(ip_str, ":"), ip_str)

\* The length of the run of zero hextets that starts at i (0 when i is not
\* the start of a run).
RECURSIVE ZeroRun(_, _)
ZeroRun(hextets, i) ==
    IF i > Len(hextets) \/ hextets[i] # 0 THEN 0 ELSE 1 + ZeroRun(hextets, i + 1)

RunStart(hextets, i) == hextets[i] = 0 /\ (i = 1 \/ hextets[i - 1] # 0)

\* ':'.join(_compress_hextets(...)): the first longest run of two or more zero
\* hextets becomes "::".
IPv6String(hextets) ==
    LET starts == {i \in 1..Len(hextets) : RunStart(hextets, i)}
        best == CHOOSE i \in starts :
                    \A j \in starts :
                        \/ ZeroRun(hextets, j) < ZeroRun(hextets, i)
                        \/ ZeroRun(hextets, j) = ZeroRun(hextets, i) /\ i <= j
        text == [i \in 1..Len(hextets) |-> HexString(hextets[i])]
    IN  IF starts = {} \/ ZeroRun(hextets, best) <= 1
        THEN Join(text, ":")
        ELSE Join(SubSeq(text, 1, best - 1), ":") \o <<":", ":">>
             \o Join(SubSeq(text, best + ZeroRun(hextets, best), Len(text)), ":")

\* str(IPv6Address): the compressed hextets, then "%" and the scope id.
IPv6Format(hextets, scope_id) ==
    IF ~hextets.ok
    THEN hextets
    ELSE Ok(IPv6String(hextets.val) \o (IF scope_id = None THEN <<>> ELSE <<"%">> \o scope_id[1]))

\* IPv6Address.__init__ after _split_scope_id gave addr and scope_id (None
\* when the text has no "%").
IPv6Scoped(text, addr, scope_id) ==
    IF \/ Contains(text, "/")
       \/ scope_id # None /\ (scope_id[1] = <<>> \/ Contains(scope_id[1], "%"))
    THEN Raise(AddressValueError(text), <<>>)
    ELSE IPv6Format(IPv6Hextets(addr), scope_id)

\* str(ipaddress.IPv6Address(text)), scope id included (Python 3.9 to 3.12: an
\* IPv4-mapped address is printed in hextets).
IPv6Address(text) ==
    IPv6Scoped(text,
               IF Contains(text, "%") THEN SplitFirst(text, "%")[1] ELSE text,
               IF Contains(text, "%") THEN Some(SplitFirst(text, "%")[2]) ELSE None)

\* ip_address: the IPv4 reading v4 if it is an address, else the IPv6 reading
\* v6, else ValueError.
FirstAddress(text, v4, v6) ==
    IF v4.ok
    THEN Ok(IPv4String(v4.val))
    ELSE IF v6.ok
    THEN v6
    ELSE Raise(Exception("ValueError", "does not appear to be an IPv4 or IPv6 address", text, 0), <<>>)

\* str(ipaddress.ip_address(text))
IpAddress(text) == FirstAddress(text, IPv4Address(text), IPv6Address(text))

\* Lines 142-145: the address, or ConfigError for ValueError.
NormalizedIp(address) ==
    IF address.ok
    THEN Ok(Some(address.val))
    ELSE Raise(ConfigError("fixed-ip must be a valid IPv4 or IPv6 address"), None)

\* Lines 139-145 on text = str(raw).strip()
StrippedIp(text) == IF text = <<>> THEN Ok(None) ELSE NormalizedIp(IpAddress(text))

\* parse_fixed_ip(raw): raw is None or Some(string); returns None or Some(ip).
ParseFixedIp(raw) == IF raw = None THEN Ok(None) ELSE StrippedIp(Strip(raw[1]))

(***************************************************************************)
(* charm_k8s_loadbalancer.py: the desired Service.                         *)
(***************************************************************************)

\* The keyword arguments of ensure_loadbalancer_service.
EnsureArgs(app_name, namespace, selector, target_port, lb_port, annotations, fixed_ip) ==
    [app_name |-> app_name, namespace |-> namespace, selector |-> selector,
     target_port |-> target_port, lb_port |-> lb_port,
     annotations |-> annotations, fixed_ip |-> fixed_ip]

\* f"{app_name}-lb"
DerivedName(app_name) == app_name \o "-lb"

\* ServiceConfig(...): annotations is Some(dict) or None, fixed_ip the parsed IP.
ServiceConfig(args, target_port, lb_port, fixed_ip) ==
    [name |-> DerivedName(args.app_name),
     namespace |-> args.namespace,
     selector |-> args.selector,
     target_port |-> target_port,
     lb_port |-> lb_port,
     annotations |-> IF args.annotations = None \/ args.annotations = Some({}) THEN {} ELSE args.annotations[1],
     fixed_ip |-> fixed_ip]

\* Mutant: an empty annotation map is sent as it is, "or None" is missing.
BuildService_KeepsEmptyAnnotations(cfg) ==
    [name |-> cfg.name,
     namespace |-> cfg.namespace,
     labels |-> {<<"app.kubernetes.io/name", cfg.name>>},
     annotations |-> Some(cfg.annotations),
     type |-> "LoadBalancer",
     loadBalancerIP |-> IF cfg.fixed_ip = None \/ cfg.fixed_ip = Some(<<>>) THEN None ELSE cfg.fixed_ip,
     selector |-> cfg.selector,
     ports |-> <<[port |-> cfg.lb_port, targetPort |-> cfg.target_port,
                  protocol |-> "TCP", name |-> "lb"]>>]

\* _build_service(cfg): the lightkube Service; a field that is None is absent.
BuildService(cfg) ==
    [name |-> cfg.name,
     namespace |-> cfg.namespace,
     labels |-> {<<"app.kubernetes.io/name", cfg.name>>},
     annotations |-> IF cfg.annotations = {} THEN None ELSE Some(cfg.annotations),
     type |-> "LoadBalancer",
     loadBalancerIP |-> IF cfg.fixed_ip = None \/ cfg.fixed_ip = Some(<<>>) THEN None ELSE cfg.fixed_ip,
     selector |-> cfg.selector,
     ports |-> <<[port |-> cfg.lb_port, targetPort |-> cfg.target_port,
                  protocol |-> "TCP", name |-> "lb"]>>]

\* A Service value of the right shape, where a result carries none.
NoService == BuildService(ServiceConfig(EnsureArgs("", "", {}, 0, 0, None, None), 0, 0, None))

MissingLightkube ==
    ConfigError("missing runtime dependency 'lightkube' (repack the charm after updating uv.lock)")

\* Lines 203-230 with the outcomes of _validate_port and parse_fixed_ip at
\* hand: the first check that fails raises; importable: whether lightkube can
\* be imported.
EnsureChecked(args, target_port, lb_port, fixed_ip, importable) ==
    IF args.app_name = ""
    THEN Raise(ConfigError("app_name must not be empty"), NoService)
    ELSE IF args.namespace = ""
    THEN Raise(ConfigError("namespace must not be empty"), NoService)
    ELSE IF args.selector = {}
    THEN Raise(ConfigError("selector must not be empty"), NoService)
    ELSE IF ~target_port.ok
    THEN Raise(target_port.err, NoService)
    ELSE IF ~lb_port.ok
    THEN Raise(lb_port.err, NoService)
    ELSE IF ~fixed_ip.ok
    THEN Raise(fixed_ip.err, NoService)
    ELSE IF ~importable
    THEN Raise(MissingLightkube, NoService)
    ELSE Ok(BuildService(ServiceConfig(args, target_port.val, lb_port.val, fixed_ip.val)))

\* Mutant: the ports are not validated.
EnsurePrepare_NoPortCheck(args, importable) ==
    EnsureChecked(args, Ok(args.target_port), Ok(args.lb_port), ParseFixedIp(args.fixed_ip), importable)

\* ensure_loadbalancer_service up to the first cluster call: the precondition
\* checks, the ServiceConfig, _build_service and the import of the client.
EnsurePrepare(args, importable) ==
    EnsureChecked(args,
                  ValidatePort("target-port", args.target_port),
                  ValidatePort("lb-port", args.lb_port),
                  ParseFixedIp(args.fixed_ip),
                  importable)

(***************************************************************************)
(* The cluster API, as the lightkube client shows it: a set of Service     *)
(* objects keyed by (namespace, name).  Each call is atomic and answers    *)
(* with an HTTP status; a call may also fail with another status and then  *)
(* changes nothing.                                                        *)
(***************************************************************************)

Created == 201

Success == 200

Conflict == 409

NotFound == 404

\* Statuses of failures the code does not recognise.
OtherErrors == {403, 500}

SameKey(o, namespace, name) == o.namespace = namespace /\ o.name = name

Exists(cl, namespace, name) == \E o \in cl : SameKey(o, namespace, name)

Without(cl, namespace, name) == {o \in cl : ~SameKey(o, namespace, name)}

Response(code, cl) == [code |-> code, cluster |-> cl]

Failures(cl) == {Response(code, cl) : code \in OtherErrors}

\* client.create(svc)
ApiCreate(cl, svc) ==
    Failures(cl) \cup
    (IF Exists(cl, svc.namespace, svc.name)
     THEN {Response(Conflict, cl)}
     ELSE {Response(Created, cl \cup {svc})})

\* client.replace(svc)
ApiReplace(cl, svc) ==
    Failures(cl) \cup
    (IF Exists(cl, svc.namespace, svc.name)
     THEN {Response(Success, Without(cl, svc.namespace, svc.name) \cup {svc})}
     ELSE {Response(NotFound, cl)})

\* client.delete(Service, name=name, namespace=namespace)
ApiDelete(cl, namespace, name) ==
    Failures(cl) \cup
    (IF Exists(cl, namespace, name)
     THEN {Response(Success, Without(cl, namespace, name))}
     ELSE {Response(NotFound, cl)})

\* lightkube's ApiError with e.status.code = code
ApiError(code) == Exception("ApiError", "", <<>>, code)

\* One cluster call as the history records it.
ApiCall(api, namespace, name, body, code) ==
    [api |-> api, namespace |-> namespace, name |-> name, body |-> body, code |-> code]

(***************************************************************************)
(* The inputs the model draws from.                                        *)
(***************************************************************************)

\* "app=x", "10.0.0.1" and the other strings of the inputs.
SelApp == {<<<<"a", "p", "p">>, <<"x">>>>}

SelTier == {<<<<"a", "p", "p">>, <<"x">>>>, <<<<"t">>, <<"y">>>>}

AnnType == {<<<<"k", ".", "i", "o", "/", "t">>, <<"n", "l", "b">>>>}

Ip10 == <<"1", "0", ".", "0", ".", "0", ".", "1">>

IpPadded == <<" ", "1", "0", ".", "0", ".", "0", ".", "1", " ">>

IpBad == <<"n", "o", "t", "-", "a", "n", "-", "i", "p">>

IpOctet == <<"2", "5", "6", ".", "0", ".", "0", ".", "1">>

Ip6 == <<"F", "E", "8", "0", ":", ":", "1">>

\* A valid call, and the values that replace one argument of it at a time.
BaseArgs == EnsureArgs("a", "n1", SelApp, 8080, 80, None, None)

AppNames == {"a", "b", ""}

Namespaces == {"n1", ""}

ArgVariants ==
    {[BaseArgs EXCEPT !.app_name = v] : v \in AppNames}
    \cup {[BaseArgs EXCEPT !.namespace = v] : v \in Namespaces}
    \cup {[BaseArgs EXCEPT !.selector = v] : v \in {{}, SelTier}}
    \cup {[BaseArgs EXCEPT !.target_port = v] : v \in {0, 1, 65535, 65536}}
    \cup {[BaseArgs EXCEPT !.lb_port = v] : v \in {0, 65536}}
    \cup {[BaseArgs EXCEPT !.annotations = v] : v \in {Some({}), Some(AnnType)}}
    \cup {[BaseArgs EXCEPT !.fixed_ip = v] :
            v \in {Some(<<>>), Some(<<" ">>), Some(Ip10), Some(IpPadded), Some(IpBad), Some(IpOctet),
                  Some(Ip6)}}

\* The keys (namespace, app_name) a successful reconciliation can have.
Keys == (Namespaces \ {""}) \X (AppNames \ {""})

\* The charm's configuration: an option that is not set is None.
Config(selector, target_port, lb_port, annotations, fixed_ip) ==
    [selector |-> selector, target_port |-> target_port, lb_port |-> lb_port,
     annotations |-> annotations, fixed_ip |-> fixed_ip]

\* "app=x", " app = x ,", "x", {"app": "x"}, {"app": 1}, "k.io/t=nlb" and "a b=c".
RawSelApp == <<"a", "p", "p", "=", "x">>

RawSelPadded == <<" ", "a", "p", "p", " ", "=", " ", "x", " ", ",">>

RawSelBad == <<"x">>

\* {"a": ""}
RawSelJsonEmpty == <<"{", "\"", "a", "\"", ":", " ", "\"", "\"", "}">>

RawSelJson == <<"{", "\"", "a", "p", "p", "\"", ":", " ", "\"", "x", "\"", "}">>

RawSelJsonNumber == <<"{", "\"", "a", "p", "p", "\"", ":", " ", "1", "}">>

RawAnnType == <<"k", ".", "i", "o", "/", "t", "=", "n", "l", "b">>

RawAnnBad == <<"a", " ", "b", "=", "c">>

\* A valid configuration, and the values that replace one option of it at a time.
BaseConfig == Config(Some(RawSelApp), 8080, 80, None, None)

ConfigVariants ==
    {[BaseConfig EXCEPT !.selector = v] : v \in {Some(RawSelApp), None, Some(RawSelBad), Some(RawSelPadded),
                  Some(RawSelJson), Some(RawSelJsonNumber), Some(RawSelJsonEmpty)}}
    \cup {[BaseConfig EXCEPT !.target_port = v] : v \in {0}}
    \cup {[BaseConfig EXCEPT !.annotations = v] : v \in {Some(RawAnnType), Some(RawAnnBad)}}
    \cup {[BaseConfig EXCEPT !.fixed_ip = v] : v \in {Some(Ip10), Some(IpBad), Some(Ip6)}}

\* The callers: the units of the application; "u0" is also the single actor of
\* the library-level specification.
Units == {"u0", "u1"}

\* self.app.name and self.model.name
AppName == "a"

ModelName == "n1"

(***************************************************************************)
(* State.                                                                  *)
(***************************************************************************)
VARIABLES
    cluster,    \* the Service objects in the cluster
    installed,  \* whether lightkube can be imported
    pc,         \* per caller: "idle", or "replace" between Create's 409 and Replace
    frame,      \* per caller: the locals of its invocation in flight
    status,     \* per unit: self.unit.status
    leaders,    \* the units for which is_leader() is true (at most one)
    alive,      \* the units that have not been removed
    appState,   \* "deployed", or "removing" once the application is being removed
    last,       \* history: the last completed invocation or handler
    lastOk      \* history: per key, the arguments of the last successful Reconcile

vars == <<cluster, installed, pc, frame, status, leaders, alive, appState, last, lastOk>>

juju == <<leaders, alive, appState>>

\* The arguments of delete_loadbalancer_service, in the shape of EnsureArgs.
DeleteArgs(app_name, namespace) == EnsureArgs(app_name, namespace, {}, 0, 0, None, None)

\* How an invocation was entered: "call" (the library function called
\* directly), "parse" (a caller that parses a configuration and calls the
\* library with the result), "reconcile" (_on_reconcile) or "remove"
\* (_on_remove); and the configuration read.
Context(entry, config) == [entry |-> entry, config |-> config]

Direct == Context("call", BaseConfig)

\* A completed invocation: how it was entered (ctx); the function reached
\* (op: "ensure", "delete", "parsers" when the parsers raised before ensure was
\* called, "none" when a handler returned at its leader check); who ran it and
\* whether is_leader() held for it; the arguments; the exception the function
\* raised (res; NoError: it returned) and the one that left the handler or call
\* (escaped); its cluster calls in order; the cluster before it; and whether
\* the invocation completed just before it was a successful call of the same
\* function with the same arguments.
Invocation(ctx, op, caller, leader, args, res, escaped, calls, before, repeated) ==
    [ctx |-> ctx, op |-> op, caller |-> caller, leader |-> leader, args |-> args,
     res |-> res, escaped |-> escaped, calls |-> calls, before |-> before,
     repeated |-> repeated]

NoInvocation ==
    Invocation(Direct, "none", "u0", FALSE, DeleteArgs("", ""), NoError, NoError, <<>>, {}, FALSE)

Frame(ctx, args, svc, calls, before) ==
    [ctx |-> ctx, args |-> args, svc |-> svc, calls |-> calls, before |-> before]

NoFrame == Frame(Direct, DeleteArgs("", ""), NoService, <<>>, {})

\* ops.model statuses
Status(name, message) == [name |-> name, message |-> message]

UnknownStatus == Status("unknown", "")

WaitingStatus == Status("waiting", "waiting for leader to reconcile load balancer")

MaintenanceStatus == Status("maintenance", "reconciling kubernetes service")

ActiveStatus == Status("active", "load balancer service ready")

BlockedStatus(message) == Status("blocked", message)

Init ==
    /\ cluster = {}
    /\ installed \in BOOLEAN
    /\ pc = [c \in Units |-> "idle"]
    /\ frame = [c \in Units |-> NoFrame]
    /\ status = [c \in Units |-> UnknownStatus]
    /\ leaders = {"u0"}
    /\ alive = Units
    /\ appState = "deployed"
    /\ last = NoInvocation
    /\ lastOk = [k \in Keys |-> None]

(***************************************************************************)
(* charm.py: what the handlers do with the outcome of their try block.     *)
(***************************************************************************)

\* Mutant: the handler returns without setting ActiveStatus.
ReconcileOutcome_NoActive(res) ==
    IF res = NoError
    THEN [status |-> MaintenanceStatus, escaped |-> NoError]
    ELSE IF res.kind = "ConfigError"
    THEN [status |-> BlockedStatus(res.msg), escaped |-> NoError]
    ELSE [status |-> BlockedStatus("failed to reconcile service: " \o res.kind), escaped |-> NoError]

\* Mutant: only ConfigError is caught.
ReconcileOutcome_OnlyConfigError(res) ==
    IF res = NoError
    THEN [status |-> ActiveStatus, escaped |-> NoError]
    ELSE IF res.kind = "ConfigError"
    THEN [status |-> BlockedStatus(res.msg), escaped |-> NoError]
    ELSE [status |-> MaintenanceStatus, escaped |-> res]

\* _on_reconcile, lines 61-70: the status set and the exception that leaves
\* the handler, given what the try block raised (NoError: nothing).
ReconcileOutcome(res) ==
    IF res = NoError
    THEN [status |-> ActiveStatus, escaped |-> NoError]
    ELSE IF res.kind = "ConfigError"
    THEN [status |-> BlockedStatus(res.msg), escaped |-> NoError]
    ELSE [status |-> BlockedStatus("failed to reconcile service: " \o res.kind), escaped |-> NoError]

\* _on_remove, lines 75-81: every exception is logged and dropped.
RemoveOutcome(res) == NoError

\* The exception that leaves an invocation entered as ctx.
Escaped(ctx, res) ==
    IF ctx.entry = "reconcile" THEN ReconcileOutcome(res).escaped
    ELSE IF ctx.entry = "remove" THEN RemoveOutcome(res)
    ELSE res

(***************************************************************************)
(* ensure_loadbalancer_service and delete_loadbalancer_service.            *)
(***************************************************************************)

\* The invocation of caller c returns or raises (res), leaving the cluster cl;
\* a reconcile handler then sets the unit's status.
Return(c, ctx, op, args, res, calls, before, cl) ==
    /\ cluster' = cl
    /\ pc' = [pc EXCEPT ![c] = "idle"]
    /\ frame' = [frame EXCEPT ![c] = NoFrame]
    /\ status' = IF ctx.entry = "reconcile"
                 THEN [status EXCEPT ![c] = ReconcileOutcome(res).status]
                 ELSE status
    /\ last' = Invocation(ctx, op, c, c \in leaders, args, res, Escaped(ctx, res), calls, before,
                          last.op = op /\ last.args = args /\ last.res = NoError)
    /\ lastOk' = IF op = "ensure" /\ res = NoError
                 THEN [lastOk EXCEPT ![<<args.namespace, args.app_name>>] = Some(args)]
                 ELSE lastOk

\* Mutant: Create's 409 is raised like any other failure.
EnsureCreate_RaiseOnConflict(c, ctx, args) ==
    LET prep == EnsurePrepare(args, installed)
        svc == prep.val
    IN  IF ~prep.ok
        THEN Return(c, ctx, "ensure", args, prep.err, <<>>, cluster, cluster)
        ELSE \E r \in ApiCreate(cluster, svc) :
                LET call == ApiCall("create", svc.namespace, svc.name, Some(svc), r.code)
                IN  IF r.code = Created
                    THEN Return(c, ctx, "ensure", args, NoError, <<call>>, cluster, r.cluster)
                    ELSE Return(c, ctx, "ensure", args, ApiError(r.code), <<call>>, cluster, r.cluster)

\* Mutant: Create's 409 is taken for success and Replace is never called.
EnsureCreate_ConflictIsSuccess(c, ctx, args) ==
    LET prep == EnsurePrepare(args, installed)
        svc == prep.val
    IN  IF ~prep.ok
        THEN Return(c, ctx, "ensure", args, prep.err, <<>>, cluster, cluster)
        ELSE \E r \in ApiCreate(cluster, svc) :
                LET call == ApiCall("create", svc.namespace, svc.name, Some(svc), r.code)
                IN  IF r.code = Created \/ r.code = Conflict
                    THEN Return(c, ctx, "ensure", args, NoError, <<call>>, cluster, r.cluster)
                    ELSE Return(c, ctx, "ensure", args, ApiError(r.code), <<call>>, cluster, r.cluster)

\* Mutant: on Create's 409 the existing object is deleted before the rewrite.
EnsureCall_DeleteOnConflict(c, ctx, args, svc) ==
    \E r \in ApiCreate(cluster, svc) :
        LET call == ApiCall("create", svc.namespace, svc.name, Some(svc), r.code)
        IN  IF r.code = Created
            THEN Return(c, ctx, "ensure", args, NoError, <<call>>, cluster, r.cluster)
            ELSE IF r.code # Conflict
            THEN Return(c, ctx, "ensure", args, ApiError(r.code), <<call>>, cluster, r.cluster)
            ELSE /\ cluster' = Without(r.cluster, svc.namespace, svc.name)
                 /\ pc' = [pc EXCEPT ![c] = "replace"]
                 /\ frame' = [frame EXCEPT ![c] = Frame(ctx, args, svc, <<call>>, cluster)]
                 /\ status' = IF ctx.entry = "reconcile"
                              THEN [status EXCEPT ![c] = MaintenanceStatus]
                              ELSE status
                 /\ UNCHANGED <<last, lastOk>>

\* Mutant: Create's 409 is raised to the caller; there is no fallback to Replace.
EnsureCall_NoFallback(c, ctx, args, svc) ==
    \E r \in ApiCreate(cluster, svc) :
        LET call == ApiCall("create", svc.namespace, svc.name, Some(svc), r.code)
        IN  IF r.code = Created
            THEN Return(c, ctx, "ensure", args, NoError, <<call>>, cluster, r.cluster)
            ELSE Return(c, ctx, "ensure", args, ApiError(r.code), <<call>>, cluster, r.cluster)

\* Lines 232-238 for the Service svc that lines 203-230 built: client.create
\* and its answer.
EnsureCall(c, ctx, args, svc) ==
    \E r \in ApiCreate(cluster, svc) :
        LET call == ApiCall("create", svc.namespace, svc.name, Some(svc), r.code)
        IN  IF r.code = Created
            THEN Return(c, ctx, "ensure", args, NoError, <<call>>, cluster, r.cluster)
            ELSE IF r.code # Conflict
            THEN Return(c, ctx, "ensure", args, ApiError(r.code), <<call>>, cluster, r.cluster)
            ELSE /\ cluster' = r.cluster
                 /\ pc' = [pc EXCEPT ![c] = "replace"]
                 /\ frame' = [frame EXCEPT ![c] = Frame(ctx, args, svc, <<call>>, cluster)]
                 /\ status' = IF ctx.entry = "reconcile"
                              THEN [status EXCEPT ![c] = MaintenanceStatus]
                              ELSE status
                 /\ UNCHANGED <<last, lastOk>>

\* prep: the outcome of lines 203-230.
EnsurePrepared(c, ctx, args, prep) ==
    IF ~prep.ok
    THEN Return(c, ctx, "ensure", args, prep.err, <<>>, cluster, cluster)
    ELSE EnsureCall(c, ctx, args, prep.val)

\* ensure_loadbalancer_service(**args) from its first line to the answer to
\* client.create: anything raised before or by create ends the call, 201 ends it
\* with success, 409 leaves client.replace to do.
EnsureCreate(c, ctx, args) == EnsurePrepared(c, ctx, args, EnsurePrepare(args, installed))

\* Mutant: after a 409 the existing object is deleted and created anew; a
\* failure between the two leaves nothing.
EnsureReplace_DeleteThenCreate(c) ==
    LET f == frame[c]
    IN  \E r \in ApiReplace(cluster, f.svc) :
            LET call == ApiCall("replace", f.svc.namespace, f.svc.name, Some(f.svc), r.code)
            IN  IF r.code = Success
                THEN Return(c, f.ctx, "ensure", f.args, NoError, Append(f.calls, call), f.before, r.cluster)
                ELSE Return(c, f.ctx, "ensure", f.args, ApiError(r.code), Append(f.calls, call), f.before,
                            Without(cluster, f.svc.namespace, f.svc.name))

\* Mutant: a failed Replace is tried a second time.
EnsureReplace_RetryOnce(c) ==
    LET f == frame[c]
    IN  \E r \in ApiReplace(cluster, f.svc) :
            LET call == ApiCall("replace", f.svc.namespace, f.svc.name, Some(f.svc), r.code)
            IN  IF r.code = Success
                THEN Return(c, f.ctx, "ensure", f.args, NoError, Append(f.calls, call), f.before, r.cluster)
                ELSE \E again \in ApiReplace(r.cluster, f.svc) :
                        LET retry == ApiCall("replace", f.svc.namespace, f.svc.name, Some(f.svc), again.code)
                        IN  Return(c, f.ctx, "ensure", f.args,
                                   IF again.code = Success THEN NoError ELSE ApiError(again.code),
                                   f.calls \o <<call, retry>>, f.before, again.cluster)

\* Mutant: a failure of Replace is dropped.
\* Mutant: the rewrite merges like a patch, annotations of the existing object
\* that the new one does not name survive.
EnsureReplace_MergeAnnotations(c) ==
    LET f == frame[c]
        kept == UNION {o.annotations[1] : o \in {x \in cluster :
                            /\ SameKey(x, f.svc.namespace, f.svc.name)
                            /\ x.annotations # None}}
        sent == IF f.svc.annotations = None THEN {} ELSE f.svc.annotations[1]
        merged == [f.svc EXCEPT !.annotations =
                        IF kept \cup sent = {} THEN None
                        ELSE Some(sent \cup {a \in kept : \A b \in sent : b[1] # a[1]})]
    IN  \E r \in ApiReplace(cluster, merged) :
            LET call == ApiCall("replace", f.svc.namespace, f.svc.name, Some(f.svc), r.code)
            IN  IF r.code = Success
                THEN Return(c, f.ctx, "ensure", f.args, NoError, Append(f.calls, call), f.before, r.cluster)
                ELSE Return(c, f.ctx, "ensure", f.args, ApiError(r.code), Append(f.calls, call), f.before, r.cluster)

EnsureReplace_SwallowError(c) ==
    LET f == frame[c]
    IN  \E r \in ApiReplace(cluster, f.svc) :
            LET call == ApiCall("replace", f.svc.namespace, f.svc.name, Some(f.svc), r.code)
            IN  Return(c, f.ctx, "ensure", f.args, NoError, Append(f.calls, call), f.before, r.cluster)

\* The except branch of ensure_loadbalancer_service after a 409: client.replace.
EnsureReplace(c) ==
    LET f == frame[c]
    IN  \E r \in ApiReplace(cluster, f.svc) :
            LET call == ApiCall("replace", f.svc.namespace, f.svc.name, Some(f.svc), r.code)
            IN  IF r.code = Success
                THEN Return(c, f.ctx, "ensure", f.args, NoError, Append(f.calls, call), f.before, r.cluster)
                ELSE Return(c, f.ctx, "ensure", f.args, ApiError(r.code), Append(f.calls, call), f.before, r.cluster)

\* Mutant: not found is raised like any other failure.
DeleteService_RaiseOnNotFound(c, ctx, app_name, namespace) ==
    LET args == DeleteArgs(app_name, namespace)
        name == DerivedName(app_name)
    IN  IF ~installed
        THEN Return(c, ctx, "delete", args, MissingLightkube, <<>>, cluster, cluster)
        ELSE \E r \in ApiDelete(cluster, namespace, name) :
                LET call == ApiCall("delete", namespace, name, None, r.code)
                IN  IF r.code = Success
                    THEN Return(c, ctx, "delete", args, NoError, <<call>>, cluster, r.cluster)
                    ELSE Return(c, ctx, "delete", args, ApiError(r.code), <<call>>, cluster, r.cluster)

\* delete_loadbalancer_service(app_name=..., namespace=...)
DeleteService(c, ctx, app_name, namespace) ==
    LET args == DeleteArgs(app_name, namespace)
        name == DerivedName(app_name)
    IN  IF ~installed
        THEN Return(c, ctx, "delete", args, MissingLightkube, <<>>, cluster, cluster)
        ELSE \E r \in ApiDelete(cluster, namespace, name) :
                LET call == ApiCall("delete", namespace, name, None, r.code)
                IN  IF r.code = Success \/ r.code = NotFound
                    THEN Return(c, ctx, "delete", args, NoError, <<call>>, cluster, r.cluster)
                    ELSE Return(c, ctx, "delete", args, ApiError(r.code), <<call>>, cluster, r.cluster)

(***************************************************************************)
(* charm.py: the try block of _on_reconcile.                               *)
(***************************************************************************)

KeyError(key) == Exception("KeyError", key, <<>>, 0)

\* config.get(key, ""): the text of an option, "" when it is not set.
GetOrEmpty(option) == IF option = None THEN <<>> ELSE option[1]

\* Lines 45-60 with the outcomes of the two parsers at hand: the arguments of
\* ensure_loadbalancer_service, or the exception raised on the way.
ParsedConfig(config, selector, annotations) ==
    IF config.selector = None
    THEN Raise(KeyError("selector"), DeleteArgs(AppName, ModelName))
    ELSE IF ~selector.ok
    THEN Raise(selector.err, DeleteArgs(AppName, ModelName))
    ELSE IF ~annotations.ok
    THEN Raise(annotations.err, DeleteArgs(AppName, ModelName))
    ELSE Ok(EnsureArgs(AppName, ModelName, selector.val, config.target_port, config.lb_port,
                       Some(annotations.val), Some(GetOrEmpty(config.fixed_ip))))

\* Lines 45-51: the configuration parsed.
ParseConfig(config) ==
    ParsedConfig(config,
                 ParseSelector(config.selector),
                 ParseAnnotations(Some(GetOrEmpty(config.annotations))))

\* Lines 52-60 on the outcome of lines 45-51.
EnsureParsed(c, ctx, parsed) ==
    IF ~parsed.ok
    THEN Return(c, ctx, "parsers", parsed.val, parsed.err, <<>>, cluster, cluster)
    ELSE EnsureCreate(c, ctx, parsed.val)

\* Lines 45-60: parse the configuration, then call ensure_loadbalancer_service.
ParseThenEnsure(c, ctx) == EnsureParsed(c, ctx, ParseConfig(ctx.config))

(***************************************************************************)
(* The library driven by a single actor.                                   *)
(***************************************************************************)

Actor == "u0"

\* The actor calls ensure_loadbalancer_service with any arguments.
Reconcile(args) ==
    /\ pc[Actor] = "idle"
    /\ EnsureCreate(Actor, Direct, args)
    /\ UNCHANGED <<installed, juju>>

\* The actor parses a configuration and calls ensure_loadbalancer_service
\* with the result, as the charm does.
ReconcileConfig(config) ==
    /\ pc[Actor] = "idle"
    /\ ParseThenEnsure(Actor, Context("parse", config))
    /\ UNCHANGED <<installed, juju>>

\* The actor's call goes on to client.replace.
ReconcileReplace ==
    /\ pc[Actor] = "replace"
    /\ EnsureReplace(Actor)
    /\ UNCHANGED <<installed, juju>>

\* The actor calls delete_loadbalancer_service.
Delete(app_name, namespace) ==
    /\ pc[Actor] = "idle"
    /\ DeleteService(Actor, Direct, app_name, namespace)
    /\ UNCHANGED <<installed, juju>>

Next ==
    \/ \E args \in ArgVariants : Reconcile(args)
    \/ \E config \in ConfigVariants : ReconcileConfig(config)
    \/ ReconcileReplace
    \/ \E app_name \in AppNames, namespace \in Namespaces : Delete(app_name, namespace)

Spec == Init /\ [][Next]_vars

(***************************************************************************)
(* The charm: the units of one application handle the events Juju sends.   *)
(***************************************************************************)

\* Mutant: the handler does not check is_leader().
OnReconcile_NoLeaderCheck(u, config) ==
    /\ u \in alive
    /\ appState = "deployed"
    /\ pc[u] = "idle"
    /\ ParseThenEnsure(u, Context("reconcile", config))
    /\ UNCHANGED <<installed, juju>>

\* _on_reconcile (install, config-changed, upgrade-charm) on unit u, which
\* reads the configuration config: up to the answer to client.create.
OnReconcile(u, config) ==
    /\ u \in alive
    /\ appState = "deployed"
    /\ pc[u] = "idle"
    /\ IF u \notin leaders
       THEN /\ status' = [status EXCEPT ![u] = WaitingStatus]
            /\ last' = Invocation(Context("reconcile", config), "none", u, u \in leaders,
                                  DeleteArgs(AppName, ModelName), NoError, NoError, <<>>, cluster, FALSE)
            /\ UNCHANGED <<cluster, pc, frame, lastOk>>
       ELSE ParseThenEnsure(u, Context("reconcile", config))
    /\ UNCHANGED <<installed, juju>>

\* _on_reconcile on unit u goes on to client.replace.
OnReconcileReplace(u) ==
    /\ pc[u] = "replace"
    /\ EnsureReplace(u)
    /\ UNCHANGED <<installed, juju>>

\* _on_remove on unit u, after which the unit is gone.  Juju sends remove to
\* a unit that is removed: when the application is scaled down and when the
\* application is removed.
OnRemove(u) ==
    /\ u \in alive
    /\ pc[u] = "idle"
    /\ IF u \notin leaders
       THEN /\ last' = Invocation(Context("remove", BaseConfig), "none", u, u \in leaders,
                                  DeleteArgs(AppName, ModelName), NoError, NoError, <<>>, cluster, FALSE)
            /\ UNCHANGED <<cluster, pc, frame, status, lastOk>>
       ELSE DeleteService(u, Context("remove", BaseConfig), AppName, ModelName)
    /\ alive' = alive \ {u}
    /\ leaders' = leaders \ {u}
    /\ UNCHANGED <<installed, appState>>

\* Juju elects the unit u leader.  A unit that saw is_leader() true keeps the
\* leadership for the rest of its hook, so no election falls inside a handler.
ElectLeader(u) ==
    /\ appState = "deployed"
    /\ u \in alive
    /\ leaders # {u}
    /\ \A c \in Units : pc[c] = "idle"
    /\ leaders' = {u}
    /\ UNCHANGED <<cluster, installed, pc, frame, status, alive, appState, last, lastOk>>

\* The operator removes the application: every unit left is removed.
RemoveApplication ==
    /\ appState = "deployed"
    /\ \A c \in Units : pc[c] = "idle"
    /\ appState' = "removing"
    /\ UNCHANGED <<cluster, installed, pc, frame, status, leaders, alive, last, lastOk>>

CharmNext ==
    \/ \E u \in Units, config \in ConfigVariants : OnReconcile(u, config)
    \/ \E u \in Units : OnReconcileReplace(u)
    \/ \E u \in Units : OnRemove(u)
    \/ \E u \in Units : ElectLeader(u)
    \/ RemoveApplication

CharmSpec == Init /\ [][CharmNext]_vars

(***************************************************************************)
(* The library beside other writers of the cluster: between the calls of   *)
(* an invocation, and between invocations, the object may be edited by     *)
(* anyone with access to the API (kubectl annotate, kubectl edit).         *)
(***************************************************************************)

DriftKinds == {"annotations", "type", "selector", "ports"}

\* The object o after an external edit of one field.
Drifted(o, kind) ==
    CASE kind = "annotations" ->
            [o EXCEPT !.annotations =
                Some({<<<<"n", "o", "t", "e">>, <<"m">>>>} \cup (IF @ = None THEN {} ELSE @[1]))]
      [] kind = "type" -> [o EXCEPT !.type = "NodePort"]
      [] kind = "selector" -> [o EXCEPT !.selector = SelTier]
      [] kind = "ports" -> [o EXCEPT !.ports[1].port = 8443]

\* An external edit of a stored object; it is no invocation of the library.
Drift(o, kind) ==
    /\ o \in cluster
    /\ Drifted(o, kind) # o
    /\ cluster' = (cluster \ {o}) \cup {Drifted(o, kind)}
    /\ last' = [NoInvocation EXCEPT !.op = "drift", !.before = cluster]
    /\ UNCHANGED <<installed, pc, frame, status, juju, lastOk>>

DriftArgs ==
    {BaseArgs,
     [BaseArgs EXCEPT !.annotations = Some(AnnType)],
     [BaseArgs EXCEPT !.fixed_ip = Some(Ip10)],
     [BaseArgs EXCEPT !.lb_port = 65536]}

DriftNext ==
    \/ \E args \in DriftArgs : Reconcile(args)
    \/ ReconcileReplace
    \/ Delete("a", "n1")
    \/ \E o \in cluster, kind \in DriftKinds : Drift(o, kind)

DriftSpec == Init /\ [][DriftNext]_vars

(***************************************************************************)
(* Two callers of the library on one key, on a cluster whose calls fail    *)
(* only with 409: each call of the client is one atomic step, the steps of *)
(* the two invocations interleave freely, and nothing deletes.             *)
(***************************************************************************)

ConcArgs ==
    {BaseArgs,
     [BaseArgs EXCEPT !.annotations = Some(AnnType)],
     [BaseArgs EXCEPT !.fixed_ip = Some(Ip10)],
     [BaseArgs EXCEPT !.selector = SelTier, !.lb_port = 1]}

\* The client call that c made in this step was answered 201, 200 or 409.
Answered(c) ==
    IF pc'[c] = "replace"
    THEN frame'[c].calls[Len(frame'[c].calls)].code \notin OtherErrors
    ELSE last'.calls[Len(last'.calls)].code \notin OtherErrors

\* ensure_loadbalancer_service called by c, up to client.create's answer.
ConcReconcile(c, args) ==
    /\ installed
    /\ pc[c] = "idle"
    /\ EnsureCreate(c, Direct, args)
    /\ Answered(c)
    /\ UNCHANGED <<installed, juju>>

\* client.replace of the invocation of c that met 409.
ConcReplace(c) ==
    /\ pc[c] = "replace"
    /\ EnsureReplace(c)
    /\ Answered(c)
    /\ UNCHANGED <<installed, juju>>

ConcNext ==
    \/ \E c \in Units, args \in ConcArgs : ConcReconcile(c, args)
    \/ \E c \in Units : ConcReplace(c)

ConcSpec == Init /\ [][ConcNext]_vars

(***************************************************************************)
(* parse_selector on a range of selector texts: the charm's handler body   *)
(* on a unit without lightkube, where a configuration goes through the     *)
(* parsers and the checks of ensure_loadbalancer_service and no further.   *)
(* The texts are segments joined by ",", and a few JSON texts.             *)
(***************************************************************************)

\* Segments key=value with one "=", with the key and the value each denotes.
PairSegments ==
    {[text |-> <<"a", "=", "b">>, key |-> <<"a">>, value |-> <<"b">>],
     [text |-> <<"a", "=", "c">>, key |-> <<"a">>, value |-> <<"c">>],
     [text |-> <<"b", "=", "c">>, key |-> <<"b">>, value |-> <<"c">>],
     [text |-> <<" ", "b", " ", "=", "TAB", "a", " ">>, key |-> <<"b">>, value |-> <<"a">>],
     [text |-> <<"a", "b", "=", "x", " ", "y", " ">>, key |-> <<"a", "b">>, value |-> <<"x", " ", "y">>]}

BlankSegments == {<<>>, <<" ">>}

\* Segments without "=", with an empty side, or with more than one "=".
MalformedSegments ==
    {<<"a">>, <<"=", "b">>, <<"a", "=">>, <<" ", "=", " ">>,
     <<"a", "=", "b", "=", "c">>, <<"a", "=", "=">>}

SegmentTexts == {g.text : g \in PairSegments} \cup BlankSegments \cup MalformedSegments

MaxSegments == 3

\* One or two segments of any kind, or MaxSegments from a smaller choice.
SelectorCases ==
    {<<x>> : x \in SegmentTexts}
    \cup {<<x, y>> : x \in SegmentTexts, y \in SegmentTexts}
    \cup [1..MaxSegments -> {<<"a", "=", "b">>, <<"a", "=", "c">>, <<"b", "=", "c">>, <<>>}]

\* "   ", "{}", " {} ", {"a":"b","c":"d"} and {"a": ""}
OtherSelectorTexts ==
    {<<" ", " ", " ">>,
     <<"{", "}">>,
     <<" ", "{", " ", "}", " ">>,
     <<"{", "\"", "a", "\"", ":", "\"", "b", "\"", ",", "\"", "c", "\"", ":", "\"", "d", "\"", "}">>,
     <<"{", "\"", "a", "\"", ":", " ", "\"", "\"", "}">>}

SelectorTexts == {Join(case, ",") : case \in SelectorCases} \cup OtherSelectorTexts

ParserNext ==
    \E text \in SelectorTexts : ReconcileConfig([BaseConfig EXCEPT !.selector = Some(text)])

\* A unit on which lightkube cannot be imported.
ParserInit == Init /\ ~installed

ParserSpec == ParserInit /\ [][ParserNext]_vars

(***************************************************************************)
(* The charm under fair scheduling.  Juju runs a hook to its end, so a     *)
(* handler that has called client.create goes on to client.replace; and    *)
(* Juju keeps sending install, config-changed and upgrade-charm (and       *)
(* update-status retries of failed hooks) to the leader while there is     *)
(* one.                                                                    *)
(***************************************************************************)

LiveConfigs ==
    {BaseConfig,
     [BaseConfig EXCEPT !.fixed_ip = Some(Ip10)],
     [BaseConfig EXCEPT !.selector = Some(RawSelBad)]}

\* A reconcile event handled by the leader.
LeaderReconcile == \E u \in leaders, config \in LiveConfigs : OnReconcile(u, config)

LiveNext ==
    \/ \E u \in Units, config \in LiveConfigs : OnReconcile(u, config)
    \/ \E u \in Units : OnReconcileReplace(u)
    \/ \E u \in Units : OnRemove(u)
    \/ \E u \in Units : ElectLeader(u)

\* LeaderReconcile is enabled: the leader is alive and no handler of it runs.
\* (In every such state some reconcile event changes the state.)
LeaderIdle == appState = "deployed" /\ \E u \in leaders \cap alive : pc[u] = "idle"

\* The second fairness condition is WF_vars(LeaderReconcile) with ENABLED
\* written out as LeaderIdle.
LiveSpec ==
    /\ Init
    /\ [][LiveNext]_vars
    /\ WF_vars(\E u \in Units : OnReconcileReplace(u))
    /\ ([]<>~LeaderIdle \/ []<><<LeaderReconcile>>_vars)

(***************************************************************************)
(* Properties of the library driven by a single actor.                     *)
(***************************************************************************)

\* The Service objects of the key k = <<namespace, app_name>>.
ObjectsOf(cl, k) == {o \in cl : SameKey(o, k[1], DerivedName(k[2]))}

\* The desired object of a call whose arguments pass the checks.
Desired(args) == EnsurePrepare(args, TRUE).val

Succeeded(inv) == inv.res = NoError

\* C1: at most one Service exists per (namespace, app_name); when it exists it
\* is the desired object of the most recent successful Reconcile of that key;
\* and the cluster holds no other object.
C1_AtMostOneLatestDesired ==
    /\ \A k \in Keys :
        /\ Cardinality(ObjectsOf(cluster, k)) <= 1
        /\ \A o \in ObjectsOf(cluster, k) : lastOk[k] # None /\ o = Desired(lastOk[k][1])
    /\ \A o \in cluster : \E k \in Keys : o \in ObjectsOf(cluster, k)

\* A successful Reconcile has overwritten an object of different content.
C1_Witness ==
    /\ last.op = "ensure" /\ Succeeded(last)
    /\ \E k \in Keys : \E o \in ObjectsOf(last.before, k) :
          /\ ObjectsOf(cluster, k) # {}
          /\ o \notin cluster

\* C2: the first cluster call of Reconcile is Create (and a call whose
\* arguments pass the checks does call it); after Create's 409 the next call is
\* Replace with the same desired object; the 409 is never the error of
\* Reconcile; and when that Replace succeeds Reconcile returns without error.
C2_CreateFirstReplaceOnConflict ==
    /\ last.op = "ensure" =>
        /\ EnsurePrepare(last.args, installed).ok => last.calls # <<>>
        /\ last.calls # <<>> =>
            /\ last.calls[1].api = "create"
            /\ last.calls[1].body = Some(Desired(last.args))
            /\ last.calls[1].code = Conflict =>
                /\ Len(last.calls) = 2
                /\ last.calls[2].api = "replace"
                /\ last.calls[2].body = last.calls[1].body
                /\ last.res # ApiError(Conflict)
                /\ last.calls[2].code = Success => Succeeded(last)
    /\ \A c \in Units : pc[c] = "replace" =>
        /\ Len(frame[c].calls) = 1
        /\ frame[c].calls[1].api = "create"
        /\ frame[c].calls[1].code = Conflict
        /\ frame[c].calls[1].body = Some(frame[c].svc)

\* Reconcile returned without error after Create's 409 and a successful Replace.
C2_Witness ==
    /\ last.op = "ensure" /\ Succeeded(last)
    /\ Len(last.calls) = 2
    /\ last.calls[1].code = Conflict
    /\ last.calls[2].code = Success

\* C3: a successful Reconcile that repeats the successful Reconcile just before
\* it (same arguments) leaves the cluster as it found it, takes the Replace
\* path, and leaves exactly one object of its key.
C3_ReconcileIdempotent ==
    (last.op = "ensure" /\ Succeeded(last) /\ last.repeated) =>
        /\ cluster = last.before
        /\ Len(last.calls) = 2
        /\ last.calls[1].api = "create" /\ last.calls[1].code = Conflict
        /\ last.calls[2].api = "replace" /\ last.calls[2].code = Success
        /\ ObjectsOf(cluster, <<last.args.namespace, last.args.app_name>>) = {Desired(last.args)}

C3_Witness == last.op = "ensure" /\ Succeeded(last) /\ last.repeated

\* C4: Delete returns without error when the cluster answers success or not
\* found, and then the object is absent; on an absent object it changes
\* nothing; a Delete that repeats a successful Delete gets not found and
\* succeeds; any other status reaches the caller as the ApiError it is.
C4_DeleteIdempotent ==
    (last.op = "delete" /\ last.calls # <<>>) =>
        LET code == last.calls[1].code
            k == <<last.args.namespace, last.args.app_name>>
        IN  /\ Len(last.calls) = 1
            /\ code \in {Success, NotFound} =>
                /\ Succeeded(last)
                /\ ObjectsOf(cluster, k) = {}
            /\ ObjectsOf(last.before, k) = {} =>
                /\ cluster = last.before
                /\ code \notin OtherErrors => code = NotFound /\ Succeeded(last)
            /\ (last.repeated /\ code \notin OtherErrors) => code = NotFound /\ Succeeded(last)
            /\ code \notin {Success, NotFound} =>
                /\ last.res = ApiError(code)
                /\ cluster = last.before

\* A Delete succeeded right after a successful Delete of the same object.
C4_Witness ==
    /\ last.op = "delete" /\ Succeeded(last) /\ last.repeated
    /\ last.calls # <<>> /\ last.calls[1].code = NotFound

\* A step of a Reconcile invocation: the one that ends at Create's 409, or
\* the one in which the invocation (or the parsing before it) completes.
ReconcileStep ==
    \/ \E c \in Units : pc[c] = "idle" /\ pc'[c] = "replace"
    \/ /\ \E c \in Units : pc'[c] = "idle" /\ frame'[c] = NoFrame /\ last'.caller = c
       /\ last'.op \in {"ensure", "parsers"}
       /\ <<cluster, last>> # <<cluster', last'>>

\* C5: no step of a Reconcile invocation, successful or failing, removes an
\* object that is present; a successful Reconcile leaves the object of its key
\* present; and a successful Delete of a key that was reconciled before leaves
\* the key absent, removing at most the object Reconcile created and nothing
\* else.
C5_ReconcileNeverRemoves ==
    /\ [][ReconcileStep => \A o \in cluster : Exists(cluster', o.namespace, o.name)]_vars
    /\ [](LET k == <<last.args.namespace, last.args.app_name>>
          IN  /\ (last.op = "ensure" /\ Succeeded(last)) => ObjectsOf(cluster, k) = {Desired(last.args)}
              /\ (last.op = "delete" /\ Succeeded(last) /\ k \in Keys) =>
                    (lastOk[k] # None =>
                        /\ ObjectsOf(last.before, k) \subseteq {Desired(lastOk[k][1])}
                        /\ cluster = last.before \ {Desired(lastOk[k][1])}
                        /\ ObjectsOf(cluster, k) = {}))

\* A successful Delete removed the object a Reconcile had created.
C5_Witness ==
    /\ last.op = "delete" /\ Succeeded(last)
    /\ <<last.args.namespace, last.args.app_name>> \in Keys
    /\ lastOk[<<last.args.namespace, last.args.app_name>>] # None
    /\ Desired(lastOk[<<last.args.namespace, last.args.app_name>>][1]) \in last.before
    /\ cluster # last.before

\* The configuration read by a parsing caller or a handler has a selector or
\* annotations the parsers reject.
Unparsable(config) ==
    \/ config.selector # None /\ ~ParseSelector(config.selector).ok
    \/ ~ParseAnnotations(Some(GetOrEmpty(config.annotations))).ok

\* The arguments fail one of the precondition checks of Reconcile.
FailsPrecondition(args) ==
    \/ args.app_name = ""
    \/ args.namespace = ""
    \/ args.selector = {}
    \/ args.target_port \notin MinPort..MaxPort
    \/ args.lb_port \notin MinPort..MaxPort
    \/ ~ParseFixedIp(args.fixed_ip).ok

\* C6: a Reconcile whose arguments fail a precondition check raises
\* ConfigError without a cluster call and leaves the cluster as it was; a
\* configuration the parsers reject ends in ConfigError before
\* ensure_loadbalancer_service is called; and no invocation waits for Replace
\* with arguments that fail a check.
C6_ValidationBeforeCluster ==
    /\ (last.op = "ensure" /\ FailsPrecondition(last.args)) =>
        /\ last.res.kind = "ConfigError"
        /\ last.calls = <<>>
        /\ cluster = last.before
    /\ (last.ctx.entry \in {"parse", "reconcile"} /\ last.leader /\ Unparsable(last.ctx.config)) =>
        /\ last.op = "parsers"
        /\ last.res.kind = "ConfigError"
        /\ last.calls = <<>>
        /\ cluster = last.before
    /\ \A c \in Units : pc[c] = "replace" => ~FailsPrecondition(frame[c].args)

\* A parsed configuration with an invalid fixed IP was refused by Reconcile
\* while an object was present.
C6_Witness ==
    /\ last.op = "ensure" /\ last.ctx.entry = "parse"
    /\ ~ParseFixedIp(last.args.fixed_ip).ok
    /\ last.res.kind = "ConfigError"
    /\ cluster # {}

\* C7: one Reconcile makes at most one Create and at most one Replace, Replace
\* only after Create's 409; any other failure of Create, and any failure of
\* Replace, is the error of Reconcile, with the status the cluster gave.
C7_ErrorsPropagateNoRetry ==
    last.op = "ensure" =>
        /\ Len(last.calls) <= 2
        /\ Cardinality({i \in 1..Len(last.calls) : last.calls[i].api = "create"}) <= 1
        /\ Cardinality({i \in 1..Len(last.calls) : last.calls[i].api = "replace"}) <= 1
        /\ \A i \in 1..Len(last.calls) : last.calls[i].api = "replace" =>
              i = 2 /\ last.calls[1].api = "create" /\ last.calls[1].code = Conflict
        /\ (Len(last.calls) >= 1 /\ last.calls[1].code \notin {Created, Conflict}) =>
              Len(last.calls) = 1 /\ last.res = ApiError(last.calls[1].code) /\ last.escaped = last.res
        /\ (Len(last.calls) = 2 /\ last.calls[2].code # Success) =>
              last.res = ApiError(last.calls[2].code) /\ last.escaped = last.res

\* Replace failed after Create's 409 and Reconcile raised that failure.
C7_Witness ==
    /\ last.op = "ensure"
    /\ Len(last.calls) = 2
    /\ last.calls[2].code \in OtherErrors
    /\ last.res.kind = "ApiError"

\* The fixed-ip texts of the inputs that are addresses, each with the
\* normalized address: "10.0.0.1", " 10.0.0.1 " and "FE80::1".
NormalizedAddresses ==
    {<<Ip10, <<"1", "0", ".", "0", ".", "0", ".", "1">>>>,
     <<IpPadded, <<"1", "0", ".", "0", ".", "0", ".", "1">>>>,
     <<Ip6, <<"f", "e", "8", "0", ":", ":", "1">>>>}

\* C18: the object Reconcile sends is named <app_name>-lb in the given
\* namespace, labelled app.kubernetes.io/name with that name, of type
\* LoadBalancer, with the given selector and the single port "lb" (port the lb
\* port, targetPort the target port, TCP); it has no annotations when the map is
\* empty or not given and the map otherwise; it has no loadBalancerIP when the
\* fixed IP is not given, empty or blank and the normalized address otherwise.
C18_DesiredObjectShape ==
    (last.op = "ensure" /\ last.calls # <<>>) =>
        LET svc == last.calls[1].body[1]
            args == last.args
        IN  /\ svc.name = args.app_name \o "-lb"
            /\ svc.namespace = args.namespace
            /\ svc.labels = {<<"app.kubernetes.io/name", args.app_name \o "-lb">>}
            /\ svc.type = "LoadBalancer"
            /\ svc.selector = args.selector
            /\ svc.ports = <<[name |-> "lb", port |-> args.lb_port,
                              targetPort |-> args.target_port, protocol |-> "TCP"]>>
            /\ svc.annotations = (IF args.annotations \in {None, Some({})} THEN None ELSE args.annotations)
            /\ IF \/ args.fixed_ip = None
                  \/ \A i \in 1..Len(args.fixed_ip[1]) : args.fixed_ip[1][i] \in Whitespace
               THEN svc.loadBalancerIP = None
               ELSE \E a \in NormalizedAddresses :
                        args.fixed_ip = Some(a[1]) /\ svc.loadBalancerIP = Some(a[2])

\* An object was sent for an empty annotation map given explicitly, and one
\* for a padded address.
C18_Witness ==
    /\ last.op = "ensure" /\ last.calls # <<>>
    /\ \/ last.args.annotations = Some({})
       \/ last.args.fixed_ip = Some(IpPadded)
    /\ cluster # {}

\* C16: the port checks of Reconcile return a port of 1..65535 unchanged into
\* the object and raise ConfigError naming the field (target-port first, then
\* lb-port) for any other, 0 and 65536 included, without a cluster call; no object
\* sent to the cluster or stored in it has a port or a targetPort outside 1..65535.
C16_PortsInRange ==
    /\ (/\ last.op = "ensure"
        /\ last.args.app_name # "" /\ last.args.namespace # "" /\ last.args.selector # {}) =>
            IF last.args.target_port < 1 \/ last.args.target_port > 65535
            THEN /\ last.res = ConfigError("target-port must be between 1 and 65535")
                 /\ last.calls = <<>>
            ELSE IF last.args.lb_port < 1 \/ last.args.lb_port > 65535
            THEN /\ last.res = ConfigError("lb-port must be between 1 and 65535")
                 /\ last.calls = <<>>
            ELSE /\ last.res.msg \notin {"target-port must be between 1 and 65535",
                                         "lb-port must be between 1 and 65535"}
                 /\ \A i \in 1..Len(last.calls) :
                        /\ last.calls[i].body[1].ports[1].port = last.args.lb_port
                        /\ last.calls[i].body[1].ports[1].targetPort = last.args.target_port
    /\ \A svc \in cluster \cup {frame[c].svc : c \in {u \in Units : pc[u] = "replace"}} :
           \A i \in 1..Len(svc.ports) :
               /\ svc.ports[i].port >= 1 /\ svc.ports[i].port <= 65535
               /\ svc.ports[i].targetPort >= 1 /\ svc.ports[i].targetPort <= 65535

\* An object with target port 65535 is stored, and the last Reconcile was
\* refused for a port of 65536.
C16_Witness ==
    /\ \E svc \in cluster : svc.ports[1].targetPort = 65535
    /\ last.op = "ensure"
    /\ 65536 \in {last.args.target_port, last.args.lb_port}
    /\ last.res.kind = "ConfigError"

\* C11: when a Reconcile has returned success, the object of its key is exactly
\* the desired object of its arguments and the only one of that key, whatever
\* the cluster held before: nothing, the object of other arguments, or an object
\* edited from outside; no field of the earlier object survives.
C11_ConvergesToDesired ==
    (last.op = "ensure" /\ last.res = NoError) =>
        ObjectsOf(cluster, <<last.args.namespace, last.args.app_name>>) = {Desired(last.args)}

\* A Reconcile succeeded over an object that carried an annotation no Reconcile
\* ever wrote.
C11_Witness ==
    /\ last.op = "ensure" /\ last.res = NoError
    /\ Len(last.calls) = 2
    /\ \E o \in last.before :
          /\ o.annotations # None
          /\ <<<<"n", "o", "t", "e">>, <<"m">>>> \in o.annotations[1]
          /\ o.type = "NodePort"
    /\ last.args.annotations = Some(AnnType)

\* C17: with two Reconciles of one key interleaved, calls failing only with
\* "already exists" and no Delete: a Create succeeds only while the key has no
\* object, and the object once there stays, so at most one Create succeeds and
\* every other invocation goes on to Replace; every invocation returns success;
\* and once an invocation has returned there is exactly one object of the key,
\* the desired object of the invocation whose write came last.
C17_ConcurrentReconciles ==
    /\ [](last.op = "ensure" =>
            /\ last.res = NoError
            /\ ObjectsOf(cluster, <<"n1", "a">>) = {Desired(lastOk[<<"n1", "a">>][1])}
            /\ cluster = ObjectsOf(cluster, <<"n1", "a">>)
            /\ \E args \in ConcArgs : lastOk[<<"n1", "a">>] = Some(args))
    /\ [][/\ cluster # {} => cluster' # {}
          /\ \A c \in Units :
                (pc[c] = "idle" /\ pc'[c] = "replace") => cluster # {} /\ cluster' = cluster
          /\ (pc' = pc) => (cluster = {} /\ Len(last'.calls) = 1 /\ last'.calls[1].code = Created)
          /\ \A c \in Units :
                (pc[c] = "replace" /\ pc'[c] = "idle") =>
                    /\ last'.caller = c /\ Len(last'.calls) = 2
                    /\ last'.calls[2].code = Success
                    /\ cluster' = {Desired(last'.args)}]_vars

\* The invocation of u1 met "already exists" and has rewritten the object,
\* while the invocation of u0, with other arguments, is between its Create
\* and its Replace.
C17_Witness ==
    /\ last.op = "ensure" /\ last.caller = "u1" /\ last.res = NoError
    /\ Len(last.calls) = 2
    /\ pc["u0"] = "replace"
    /\ frame["u0"].args # last.args
    /\ cluster = {Desired(last.args)}

\* The pairs a sequence of segments denotes: for each key the pair of its last
\* occurrence.
DenotedPairs(case) ==
    {<<g.key, g.value>> : g \in {h \in PairSegments :
        \E i \in 1..Len(case) :
            /\ case[i] = h.text
            /\ \A j \in (i + 1)..Len(case) : \A h2 \in PairSegments : case[j] = h2.text => h2.key # h.key}}

\* C13: for a text of segments that are blank or key=value with one "=", at
\* least one of them a pair, parse_selector returns exactly the pairs the
\* segments denote, trimmed, the last occurrence of a key deciding its value,
\* blank segments skipped; a text of blank segments only, an empty or blank
\* text and "{}" are refused with ConfigError.
C13_SelectorPairs ==
    /\ \A case \in SelectorCases :
        (/\ last.op # "none"
         /\ last.ctx.config.selector = Some(Join(case, ","))
         /\ \A i \in 1..Len(case) : case[i] \in BlankSegments \cup {g.text : g \in PairSegments}) =>
            IF \E i \in 1..Len(case) : case[i] \notin BlankSegments
            THEN last.op = "ensure" /\ last.args.selector = DenotedPairs(case)
            ELSE last.op = "parsers" /\ last.res.kind = "ConfigError"
    /\ (/\ last.op # "none"
        /\ last.ctx.config.selector \in {Some(<<>>), Some(<<" ", " ", " ">>), Some(<<"{", "}">>),
                                         Some(<<" ", "{", " ", "}", " ">>)}) =>
            last.op = "parsers" /\ last.res.kind = "ConfigError"
    /\ (/\ last.op # "none"
        /\ last.ctx.config.selector =
            Some(<<"{", "\"", "a", "\"", ":", "\"", "b", "\"", ",", "\"", "c", "\"", ":", "\"", "d", "\"", "}">>)) =>
            last.op = "ensure" /\ last.args.selector = {<<<<"a">>, <<"b">>>>, <<<<"c">>, <<"d">>>>}

\* "a=b,,a=c" was parsed to {a: c}.
C13_Witness ==
    /\ last.ctx.config.selector = Some(<<"a", "=", "b", ",", ",", "a", "=", "c">>)
    /\ last.op = "ensure"
    /\ last.args.selector = {<<<<"a">>, <<"c">>>>}

\* C14: a text with a segment that has no "=", more than one "=" ("a=b=c"), or
\* an empty key or value beside its "=", is refused with ConfigError.
C14_ExactlyOneEquals ==
    \A case \in SelectorCases :
        (/\ last.op # "none"
         /\ last.ctx.config.selector = Some(Join(case, ","))
         /\ \E i \in 1..Len(case) : case[i] \in MalformedSegments) =>
            last.op = "parsers" /\ last.res.kind = "ConfigError"

\* C15: every selector parse_selector returned, from either form, and every
\* selector of an object sent to the cluster or stored in it, has at least one
\* entry and no empty key and no empty value.
C15_SelectorEntriesNonEmpty ==
    /\ (last.op = "ensure" /\ last.ctx.entry = "parse") =>
        /\ last.args.selector # {}
        /\ \A p \in last.args.selector : p[1] # <<>> /\ p[2] # <<>>
    /\ \A o \in cluster \cup {frame[c].svc : c \in {u \in Units : pc[u] = "replace"}} :
        /\ o.selector # {}
        /\ \A p \in o.selector : p[1] # <<>> /\ p[2] # <<>>

\* A step of the time in which the configuration is config and the cluster
\* answers: no unit is removed and none elected, a handler that starts reads
\* config, and a handler that ends has met no failure of the API.
SettledStep(config) ==
    /\ leaders' = leaders /\ alive' = alive
    /\ \/ \E u \in Units : pc[u] = "idle" /\ pc'[u] = "replace" /\ frame'[u].ctx.config = config
       \/ \E u \in Units : pc[u] = "replace" /\ pc'[u] = "idle" /\ last'.res.kind # "ApiError"
       \/ pc' = pc /\ last'.ctx.config = config /\ last'.res.kind # "ApiError"

\* The object of the application is the desired object of config, and the
\* leader, when no handler of it is running, is Active.
Converged(config) ==
    /\ cluster = {Desired(ParseConfig(config).val)}
    /\ \A u \in leaders : pc[u] = "idle" => status[u] = ActiveStatus

\* C12: if from some time on the configuration is one valid configuration,
\* there is a leader with lightkube installed, every call of the API is
\* answered with success or "already exists", and the leader keeps handling
\* reconcile events, then from some time on the object is present and equal to
\* the desired object of that configuration and the leader is Active after
\* every handler, also under further reconcile events.
C12_Convergence ==
    \A config \in {c \in LiveConfigs : ~Unparsable(c)} :
        (/\ <>[](installed /\ leaders # {})
         /\ <>[][SettledStep(config)]_vars)
            => <>[]Converged(config)

\* The leader has handled a further reconcile event on the converged object:
\* Create answered 409, Replace rewrote the same object, and it is Active.
C12_Witness ==
    /\ last.ctx.entry = "reconcile" /\ last.op = "ensure" /\ last.res = NoError
    /\ last.repeated
    /\ Len(last.calls) = 2
    /\ last.before = cluster
    /\ Converged(last.ctx.config)
    /\ last.caller \in leaders

\* C19: a Reconcile that raised (in the parsers, in its checks, on Create or on
\* Replace) and a Delete that raised have left the cluster exactly as they
\* found it.
C19_ErrorLeavesClusterUnchanged ==
    (last.op \in {"ensure", "delete", "parsers"} /\ last.res # NoError) => cluster = last.before

\* A Delete raised the cluster's failure while the object it names was present.
C19_Witness ==
    /\ last.op = "delete"
    /\ last.res.kind = "ApiError"
    /\ ObjectsOf(cluster, <<last.args.namespace, last.args.app_name>>) # {}

(***************************************************************************)
(* Properties of the charm.                                                *)
(***************************************************************************)

\* The Service of the application is in the cluster.
ServicePresent == ObjectsOf(cluster, <<ModelName, AppName>>) # {}

\* C8: a unit that is not the leader makes no cluster call: its reconcile
\* handler returns at the leader check with status Waiting, its remove handler
\* returns at the leader check, and every cluster call made or in flight is the
\* leader's.
C8_OnlyLeaderTouchesCluster ==
    /\ last.ctx.entry \in {"reconcile", "remove"} =>
        /\ last.calls # <<>> => last.leader
        /\ last.op # "none" => last.leader
        /\ ~last.leader =>
            /\ last.op = "none"
            /\ cluster = last.before
            /\ (last.ctx.entry = "reconcile" /\ pc[last.caller] = "idle") =>
                  status[last.caller] = WaitingStatus
    /\ \A c \in Units : pc[c] = "replace" => c \in leaders

\* A unit that is not the leader handled a reconcile event while the Service
\* was present.
C8_Witness ==
    /\ last.ctx.entry = "reconcile"
    /\ ~last.leader
    /\ status[last.caller] = WaitingStatus
    /\ ServicePresent

\* C9: when the leader's reconcile handler has returned, ensure was called
\* exactly when the parsers accepted the configuration, with the parsed
\* selector, the ports, the parsed annotations and the raw fixed IP; the status
\* is Active exactly when nothing was raised and Blocked otherwise; and no
\* exception left the handler.
C9_LeaderHandlerStatus ==
    (last.ctx.entry = "reconcile" /\ last.leader /\ pc[last.caller] = "idle") =>
        LET config == last.ctx.config
            parsed == config.selector # None /\ ~Unparsable(config)
        IN  /\ last.op = "ensure" <=> parsed
            /\ last.op = "ensure" =>
                  last.args = EnsureArgs(AppName, ModelName,
                                         ParseSelector(config.selector).val,
                                         config.target_port, config.lb_port,
                                         Some(ParseAnnotations(Some(GetOrEmpty(config.annotations))).val),
                                         Some(GetOrEmpty(config.fixed_ip)))
            /\ status[last.caller] = ActiveStatus <=> (parsed /\ Succeeded(last))
            /\ ~(parsed /\ Succeeded(last)) => status[last.caller].name = "blocked"
            /\ status[last.caller] # MaintenanceStatus
            /\ last.escaped = NoError

\* The leader's handler ended Active after Create's 409 and a Replace.
C9_Witness ==
    /\ last.ctx.entry = "reconcile" /\ last.leader
    /\ Len(last.calls) = 2
    /\ status[last.caller] = ActiveStatus

\* C10: the Service never becomes absent while the application is deployed,
\* and it is absent once the application has been removed.
C10_DeletedOnApplicationRemoval ==
    [][/\ (ServicePresent /\ ~ServicePresent') => appState = "removing"
       /\ (appState' = "removing" /\ alive' = {}) => ~ServicePresent']_vars

====
